---- MODULE Spec2Model ----
(***************************************************************************)
(* FluxDB durable core: ordered MemTable (mem_table.rs), binary WAL writer *)
(* (wal.rs), WAL reader (wal_iterator.rs), recovery (wal.rs) and the Store *)
(* facade (disk.rs).  Files are byte sequences, file names are character   *)
(* sequences, the wall clock and I/O failures are environment choices.     *)
(***************************************************************************)
EXTENDS Integers, Sequences, FiniteSets, TLC

VARIABLES
  dir,        \* the directory: file name (char codes) -> file bytes
  phase,      \* position of the single process ("idle", "wal", "replay", ...)
  mem_table,  \* InMemoryTable {records, total_size}
  wal,        \* the live WAL handle {path, buf, unlinked}
  wal_files,  \* recover_from_directory: the sorted list of old logs
  pos,        \* recover_from_directory: index of the next old log
  ret,        \* result of the last MemTable / Store call
  budget,     \* environment events (create_new calls, write calls, failed
              \* flushes) the behaviour may still contain
  calls,      \* history: LogRecords appended through the live handle since create_new
              \*   (SpecCalls: the arguments of the last insert / remove)
              \*   (Store: the set / delete calls that returned an error since new)
  fresh,      \* history: create_new created the file (it did not exist before)
  expect,     \* history: MemTable remembered at the last drop / crash
              \*   (SpecCalls: the record the last insert / remove found)
  snap,       \* history: the directory as recovery found it
  lastSet,    \* history: key -> the last successful set since the Store opened
  touched,    \* history: keys written live or replayed since recovery began
  denied,     \* files of dir that open() refuses: [read |-> names, append |-> names]
  yielded     \* the LogRecords a LogFileIterator has returned so far

vars == <<dir, phase, mem_table, wal, wal_files, pos, ret, budget,
          calls, fresh, expect, snap, lastSet, touched, denied, yielded>>

----------------------------------------------------------------------------
(* Bounds and input sets *)

MaxEvents   == 3   \* Spec: environment events per behaviour
StoreEvents == 4   \* SpecStore: environment events per behaviour
WalEvents   == 4   \* SpecWal: environment events per behaviour
IntCap      == 1048576  \* integers decoded from bytes saturate here

\* wall-clock readings (microseconds); "9.wal" and "10.wal" differ in length
Clock     == {9, 10, 11}
Keys      == {<<>>, <<1>>, <<1, 0>>, <<2>>}
Values    == {<<>>, <<7>>, <<8, 9>>}
StoreKeys == {<<>>, <<1>>}
StoreVals == {<<>>, <<7>>}
Stamps    == {5, 300}
\* wall-clock readings taken by set and delete
SetClock  == {9, 10}

----------------------------------------------------------------------------
(* Byte strings *)

\* Ord for [u8] / OsStr: lexicographic, a proper prefix is smaller
RECURSIVE LexLess(_, _)
LexLess(a, b) ==
  IF b = <<>> THEN FALSE
  ELSE IF a = <<>> THEN TRUE
  ELSE IF Head(a) # Head(b) THEN Head(a) < Head(b)
  ELSE LexLess(Tail(a), Tail(b))

\* n.to_le_bytes() for a w-byte unsigned integer
RECURSIVE ToLe(_, _)
ToLe(n, w) == IF w = 0 THEN <<>> ELSE <<n % 256>> \o ToLe(n \div 256, w - 1)

\* uN::from_le_bytes(b).  Values of IntCap and above are all read as IntCap:
\* such a length exceeds every file of the model, such a timestamp occurs
\* only in a frame read across a torn write.
Sat(n) == IF n > IntCap THEN IntCap ELSE n

RECURSIVE FromLe(_)
FromLe(b) == IF b = <<>> THEN 0 ELSE Sat(Head(b) + 256 * FromLe(Tail(b)))

Some(x) == [some |-> TRUE, val |-> x]
None    == [some |-> FALSE, val |-> <<>>]

----------------------------------------------------------------------------
(* mem_table.rs *)

\* mutant: the deletion flag is never set
InMemoryRecord_NotDeleted(k, v, ts, del) ==
  [key |-> k, value |-> v, timestamp |-> ts, is_deleted |-> FALSE]

InMemoryRecord(k, v, ts, del) ==
  [key |-> k, value |-> v, timestamp |-> ts, is_deleted |-> del]

NewTable == [records |-> <<>>, total_size |-> 0]

\* slice::binary_search_by_key: Ok(index) / Err(insertion point)
RECURSIVE BinarySearch(_, _, _, _)
BinarySearch(recs, key, left, right) ==
  IF left >= right THEN [ok |-> FALSE, index |-> left]
  ELSE LET mid == left + ((right - left) \div 2)
           k   == recs[mid + 1].key
       IN IF LexLess(k, key) THEN BinarySearch(recs, key, mid + 1, right)
          ELSE IF LexLess(key, k) THEN BinarySearch(recs, key, left, mid)
          ELSE [ok |-> TRUE, index |-> mid]

find_key_position(t, key) == BinarySearch(t.records, key, 0, Len(t.records))

\* mutant: the new record is pushed at the end
VecInsert_Push(s, index, x) == Append(s, x)

\* Vec::insert(index, x), index 0-based
VecInsert(s, index, x) ==
  SubSeq(s, 1, index) \o <<x>> \o SubSeq(s, index + 1, Len(s))

\* mutant: a live value written over a tombstone is not added to the size
insert_SizeDrift(t, key, value, ts) ==
  LET new_record == InMemoryRecord(key, Some(value), ts, FALSE)
      p == find_key_position(t, key)
  IN IF p.ok
     THEN LET existing == t.records[p.index + 1].value
              size == IF existing.some
                      THEN IF Len(value) < Len(existing.val)
                           THEN t.total_size - (Len(existing.val) - Len(value))
                           ELSE t.total_size + (Len(value) - Len(existing.val))
                      ELSE t.total_size
          IN [records |-> [t.records EXCEPT ![p.index + 1] = new_record],
              total_size |-> size]
     ELSE [records |-> VecInsert(t.records, p.index, new_record),
           total_size |-> t.total_size + Len(key) + Len(value) + 17]

\* mutant: a record with a newer timestamp is kept
insert_NewestWins(t, key, value, ts) ==
  LET new_record == InMemoryRecord(key, Some(value), ts, FALSE)
      p == find_key_position(t, key)
  IN IF p.ok
     THEN IF t.records[p.index + 1].timestamp > ts THEN t
          ELSE LET existing == t.records[p.index + 1].value
                   size == IF existing.some
                           THEN IF Len(value) < Len(existing.val)
                                THEN t.total_size - (Len(existing.val) - Len(value))
                                ELSE t.total_size + (Len(value) - Len(existing.val))
                           ELSE t.total_size + Len(value)
               IN [records |-> [t.records EXCEPT ![p.index + 1] = new_record],
                   total_size |-> size]
     ELSE [records |-> VecInsert(t.records, p.index, new_record),
           total_size |-> t.total_size + Len(key) + Len(value) + 17]

insert(t, key, value, ts) ==
  LET new_record == InMemoryRecord(key, Some(value), ts, FALSE)
      p == find_key_position(t, key)
  IN IF p.ok
     THEN LET existing == t.records[p.index + 1].value
              size == IF existing.some
                      THEN IF Len(value) < Len(existing.val)
                           THEN t.total_size - (Len(existing.val) - Len(value))
                           ELSE t.total_size + (Len(value) - Len(existing.val))
                      ELSE t.total_size + Len(value)
          IN [records |-> [t.records EXCEPT ![p.index + 1] = new_record],
              total_size |-> size]
     ELSE [records |-> VecInsert(t.records, p.index, new_record),
           total_size |-> t.total_size + Len(key) + Len(value) + 17]

\* mutant: removing a key that is not in the table does nothing
remove_IfPresent(t, key, ts) ==
  LET tombstone_record == InMemoryRecord(key, None, ts, TRUE)
      p == find_key_position(t, key)
  IN IF p.ok
     THEN LET existing == t.records[p.index + 1].value
              size == IF existing.some THEN t.total_size - Len(existing.val)
                      ELSE t.total_size
          IN [records |-> [t.records EXCEPT ![p.index + 1] = tombstone_record],
              total_size |-> size]
     ELSE t

remove(t, key, ts) ==
  LET tombstone_record == InMemoryRecord(key, None, ts, TRUE)
      p == find_key_position(t, key)
  IN IF p.ok
     THEN LET existing == t.records[p.index + 1].value
              size == IF existing.some THEN t.total_size - Len(existing.val)
                      ELSE t.total_size
          IN [records |-> [t.records EXCEPT ![p.index + 1] = tombstone_record],
              total_size |-> size]
     ELSE [records |-> VecInsert(t.records, p.index, tombstone_record),
           total_size |-> t.total_size + Len(key) + 17]

\* mutant: fetch returns the first record whatever the key
fetch_First(t, key) ==
  IF t.records = <<>> THEN None ELSE Some(t.records[1])

\* Option<&InMemoryRecord>
fetch(t, key) ==
  LET p == find_key_position(t, key)
  IN IF p.ok THEN Some(t.records[p.index + 1]) ELSE None

----------------------------------------------------------------------------
(* File names: utils.rs and WAL::create_new *)

\* Display for u128: decimal digits, no padding, as character codes
RECURSIVE Decimal(_)
Decimal(n) == IF n < 10 THEN <<48 + n>> ELSE Decimal(n \div 10) \o <<48 + (n % 10)>>

DotWal == <<46, 119, 97, 108>>   \* ".wal"
ExtWal == <<119, 97, 108>>       \* "wal"

\* format!("{}.wal", timestamp)
WalName(t) == Decimal(t) \o DotWal

\* index of the last '.' of a name, 0 when there is none
RECURSIVE LastDot(_, _)
LastDot(name, i) ==
  IF i = 0 THEN 0 ELSE IF name[i] = 46 THEN i ELSE LastDot(name, i - 1)

\* Path::extension: the part after the last '.', None without a '.' or
\* when the only '.' is the first character
Extension(name) ==
  LET d == LastDot(name, Len(name))
  IN IF d <= 1 THEN None ELSE Some(SubSeq(name, d + 1, Len(name)))

\* find_files_with_extension: extension().unwrap() panics on an entry
\* without extension
find_files_with_extension(d, ext) ==
  [panic |-> \E n \in DOMAIN d : ~Extension(n).some,
   files |-> {n \in DOMAIN d : Extension(n) = Some(ext)}]

\* Vec<PathBuf>::sort: ascending by the bytes of the name
RECURSIVE SortPaths(_)
SortPaths(S) ==
  IF S = {} THEN <<>>
  ELSE LET m == CHOOSE x \in S : \A y \in S \ {x} : LexLess(x, y)
       IN <<m>> \o SortPaths(S \ {m})

----------------------------------------------------------------------------
(* WAL writer: wal.rs *)

BufCapacity == 8192   \* BufWriter::new

NoWal == [path |-> <<>>, buf |-> <<>>, unlinked |-> FALSE]

\* BufWriter::write_all below capacity: the bytes are appended to the
\* buffer and the call cannot fail
Fits(buf, bytes) == Len(buf) + Len(bytes) < BufCapacity

\* mutant: the value bytes are written before the key bytes
InsertionFrame_ValueFirst(key, value, ts) ==
  ToLe(Len(key), 8) \o ToLe(0, 1) \o ToLe(Len(value), 8) \o value \o key \o ToLe(ts, 16)

InsertionFrame(key, value, ts) ==
  ToLe(Len(key), 8) \o ToLe(0, 1) \o ToLe(Len(value), 8) \o key \o value \o ToLe(ts, 16)

RemovalFrame(key, ts) ==
  ToLe(Len(key), 8) \o ToLe(1, 1) \o key \o ToLe(ts, 16)

record_insertion(buf, key, value, ts) == buf \o InsertionFrame(key, value, ts)

record_removal(buf, key, ts) == buf \o RemovalFrame(key, ts)

\* BufWriter::flush_buf: either every buffered byte reaches the file, or a
\* write fails after `written` bytes and the rest stays in the buffer
FlushOutcomes(buf) ==
  {[ok |-> TRUE, written |-> Len(buf)]} \cup
  {[ok |-> FALSE, written |-> n] : n \in {m \in {0, Len(buf) - 1} : m >= 0 /\ m < Len(buf)}}

\* the environment lets a flush fail while the budget b lasts
MayFail(b, o) == o.ok \/ b > 0
AfterFlush(b, o) == IF o.ok THEN b ELSE b - 1

Written(buf, o) == SubSeq(buf, 1, o.written)
Unwritten(buf, o) == SubSeq(buf, o.written + 1, Len(buf))

\* the file behind an append handle; bytes written to a removed file are
\* not visible under any name
AppendFile(d, w, bytes) ==
  IF w.unlinked \/ bytes = <<>> THEN d ELSE [d EXCEPT ![w.path] = @ \o bytes]

\* OpenOptions::new().create(true).append(true).open(path)
OpenAppend(d, path) ==
  IF path \in DOMAIN d THEN d
  ELSE [n \in DOMAIN d \cup {path} |-> IF n = path THEN <<>> ELSE d[n]]

\* remove_file(path)
RemoveFile(d, path) == [n \in DOMAIN d \ {path} |-> d[n]]

----------------------------------------------------------------------------
(* WAL reader: wal_iterator.rs *)

LogRecord(k, v, ts, del) ==
  [identifier |-> k, data |-> v, event_time |-> ts, is_removed |-> del]

\* mutant: read instead of read_exact, a short read fills part of the
\* zeroed buffer and succeeds
ReadExact_Short(b, at, n) ==
  IF at + n <= Len(b)
  THEN [ok |-> TRUE, bytes |-> SubSeq(b, at + 1, at + n), at |-> at + n]
  ELSE IF at >= Len(b) THEN [ok |-> FALSE, bytes |-> <<>>, at |-> Len(b)]
  ELSE [ok |-> TRUE,
        bytes |-> [i \in 1..n |-> IF at + i <= Len(b) THEN b[at + i] ELSE 0],
        at |-> Len(b)]

\* read_exact of n bytes at offset `at`
ReadExact(b, at, n) ==
  IF at + n <= Len(b)
  THEN [ok |-> TRUE, bytes |-> SubSeq(b, at + 1, at + n), at |-> at + n]
  ELSE [ok |-> FALSE, bytes |-> <<>>, at |-> Len(b)]

NoRecord == [some |-> FALSE, rec |-> LogRecord(<<>>, None, 0, FALSE), at |-> 0]

\* LogFileIterator::next
IterNext(b, at) ==
  LET kl == ReadExact(b, at, 8)
      key_length == FromLe(kl.bytes)
      fl == ReadExact(b, kl.at, 1)
      is_deleted == fl.bytes[1] # 0
      dk == ReadExact(b, fl.at, key_length)
      dt == ReadExact(b, dk.at, 16)
      vl == ReadExact(b, fl.at, 8)
      value_length == FromLe(vl.bytes)
      ik == ReadExact(b, vl.at, key_length)
      iv == ReadExact(b, ik.at, value_length)
      it == ReadExact(b, iv.at, 16)
  IN IF ~kl.ok THEN NoRecord
     ELSE IF ~fl.ok THEN NoRecord
     ELSE IF is_deleted
          THEN IF ~dk.ok THEN NoRecord
               ELSE IF ~dt.ok THEN NoRecord
               ELSE [some |-> TRUE,
                     rec |-> LogRecord(dk.bytes, None, FromLe(dt.bytes), TRUE),
                     at |-> dt.at]
          ELSE IF ~vl.ok THEN NoRecord
               ELSE IF ~ik.ok THEN NoRecord
               ELSE IF ~iv.ok THEN NoRecord
               ELSE IF ~it.ok THEN NoRecord
               ELSE [some |-> TRUE,
                     rec |-> LogRecord(ik.bytes, Some(iv.bytes), FromLe(it.bytes), FALSE),
                     at |-> it.at]

\* for log in wal.into_iter(): the records up to the first None
RECURSIVE IterFrom(_, _)
IterFrom(b, at) ==
  LET r == IterNext(b, at)
  IN IF r.some THEN <<r.rec>> \o IterFrom(b, r.at) ELSE <<>>

LogRecords(b) == IterFrom(b, 0)

----------------------------------------------------------------------------
(* Recovery: WAL::recover_from_directory *)

\* the body of `for log in wal.into_iter()`: st = [t |-> table, buf |-> buffer]
\* mutant: a removal is copied to the new log but not applied to the table
ReplayLog_KeepRemoved(st, log) ==
  IF log.is_removed
  THEN [t   |-> st.t,
        buf |-> record_removal(st.buf, log.identifier, log.event_time)]
  ELSE [t   |-> insert(st.t, log.identifier, log.data.val, log.event_time),
        buf |-> record_insertion(st.buf, log.identifier, log.data.val, log.event_time)]

ReplayLog(st, log) ==
  IF log.is_removed
  THEN [t   |-> remove(st.t, log.identifier, log.event_time),
        buf |-> record_removal(st.buf, log.identifier, log.event_time)]
  ELSE [t   |-> insert(st.t, log.identifier, log.data.val, log.event_time),
        buf |-> record_insertion(st.buf, log.identifier, log.data.val, log.event_time)]

RECURSIVE ReplayLogs(_, _)
ReplayLogs(st, logs) ==
  IF logs = <<>> THEN st ELSE ReplayLogs(ReplayLog(st, Head(logs)), Tail(logs))

LogKeys(logs) == {logs[i].identifier : i \in 1..Len(logs)}

----------------------------------------------------------------------------
(* Results and history values *)

DiskEntry(k, v, ts) == [some |-> TRUE, key |-> k, value |-> v, timestamp |-> ts]
NoEntry == [some |-> FALSE, key |-> <<>>, value |-> <<>>, timestamp |-> 0]

Ret(op, key, status, entry) ==
  [op |-> op, key |-> key, status |-> status, entry |-> entry]
NoRet == Ret("none", <<>>, "ok", NoEntry)

NoSet == [some |-> FALSE, value |-> <<>>, timestamp |-> 0]
NoExpect == [kind |-> "none", mem |-> NewTable]
EmptyDir == [n \in {} |-> <<>>]
NoDenied == [read |-> {}, append |-> {}]

\* no process state: a directory d, the budget of the behaviour, the
\* records cs that were appended to the files of d, the files dn that
\* cannot be opened
Begin(d, ph, events, cs, dn) ==
  /\ dir = d
  /\ phase = ph
  /\ mem_table = NewTable
  /\ wal = NoWal
  /\ wal_files = <<>>
  /\ pos = 1
  /\ ret = NoRet
  /\ budget = events
  /\ calls = cs
  /\ fresh = FALSE
  /\ expect = NoExpect
  /\ snap = EmptyDir
  /\ lastSet = [k \in StoreKeys |-> NoSet]
  /\ touched = {}
  /\ yielded = <<>>
  /\ denied = dn

\* a directory d whose files can all be opened
Start(d, ph, events) == Begin(d, ph, events, <<>>, NoDenied)

\* Logs written before the Store starts, as test_recover_single_write and
\* scenario S6 place them: at most one flushed frame per file
PlacedStamps == {9, 10}
PlacedFrames ==
  {<<>>} \cup {InsertionFrame(k, v, 300) : k \in StoreKeys, v \in StoreVals}
         \cup {RemovalFrame(k, 300) : k \in StoreKeys}
PlacedDirs ==
  UNION {[{WalName(t) : t \in T} -> PlacedFrames] : T \in SUBSET PlacedStamps}

\* the Store is started on a directory that holds zero or more logs
Init == \E d \in PlacedDirs : Start(d, "idle", MaxEvents)

----------------------------------------------------------------------------
(* The WAL used on its own, as the tests of wal.rs do *)

\* WAL::create_new(dir)
WalCreateNew ==
  /\ phase = "idle"
  /\ budget > 0
  /\ \E t \in Clock :
       /\ dir' = OpenAppend(dir, WalName(t))
       /\ wal' = [path |-> WalName(t), buf |-> <<>>, unlinked |-> FALSE]
       /\ fresh' = (WalName(t) \notin DOMAIN dir)
  /\ phase' = "wal"
  /\ budget' = budget - 1
  /\ calls' = <<>>
  /\ expect' = NoExpect
  /\ ret' = NoRet
  /\ UNCHANGED <<mem_table, wal_files, pos, snap, lastSet, touched>>

  /\ UNCHANGED <<denied, yielded>>
\* wal.record_insertion(key, value, timestamp)
WalRecordInsertion ==
  /\ phase = "wal"
  /\ budget > 0
  /\ \E k \in StoreKeys, v \in StoreVals, ts \in Stamps :
       /\ Fits(wal.buf, InsertionFrame(k, v, ts))
       /\ wal' = [wal EXCEPT !.buf = record_insertion(@, k, v, ts)]
       /\ calls' = Append(calls, LogRecord(k, Some(v), ts, FALSE))
  /\ ret' = NoRet
  /\ budget' = budget - 1
  /\ UNCHANGED <<dir, phase, mem_table, wal_files, pos, fresh, expect, snap, lastSet, touched>>

  /\ UNCHANGED <<denied, yielded>>
\* wal.record_removal(key, timestamp)
WalRecordRemoval ==
  /\ phase = "wal"
  /\ budget > 0
  /\ \E k \in StoreKeys, ts \in Stamps :
       /\ Fits(wal.buf, RemovalFrame(k, ts))
       /\ wal' = [wal EXCEPT !.buf = record_removal(@, k, ts)]
       /\ calls' = Append(calls, LogRecord(k, None, ts, TRUE))
  /\ ret' = NoRet
  /\ budget' = budget - 1
  /\ UNCHANGED <<dir, phase, mem_table, wal_files, pos, fresh, expect, snap, lastSet, touched>>

  /\ UNCHANGED <<denied, yielded>>
\* wal.flush()
WalFlush ==
  /\ phase = "wal"
  /\ \E o \in FlushOutcomes(wal.buf) :
       /\ MayFail(budget, o)
       /\ dir' = AppendFile(dir, wal, Written(wal.buf, o))
       /\ wal' = [wal EXCEPT !.buf = Unwritten(wal.buf, o)]
       /\ ret' = Ret("flush", <<>>, IF o.ok THEN "ok" ELSE "err", NoEntry)
       /\ budget' = AfterFlush(budget, o)
  /\ UNCHANGED <<phase, mem_table, wal_files, pos, calls, fresh, expect, snap, lastSet, touched>>

  /\ UNCHANGED <<denied, yielded>>
\* the WAL goes out of scope: BufWriter::drop tries one flush_buf and
\* ignores its result
WalDrop ==
  /\ phase = "wal"
  /\ \E o \in FlushOutcomes(wal.buf) :
       /\ MayFail(budget, o)
       /\ dir' = AppendFile(dir, wal, Written(wal.buf, o))
       /\ budget' = AfterFlush(budget, o)
  /\ wal' = NoWal
  /\ phase' = "idle"
  /\ calls' = <<>>
  /\ fresh' = FALSE
  /\ ret' = NoRet
  /\ UNCHANGED <<mem_table, wal_files, pos, expect, snap, lastSet, touched>>

  /\ UNCHANGED <<denied, yielded>>
----------------------------------------------------------------------------
(* Disk::new -> WAL::recover_from_directory, one action per step *)

\* find_files_with_extension, sort, InMemoryTable::new, WAL::create_new?.
\* create_new fails when its name is a file that cannot be opened for
\* append; Disk::new then panics on unwrap
RecoverBegin ==
  /\ phase = "idle"
  /\ budget > 0
  /\ LET ff == find_files_with_extension(dir, ExtWal)
     IN IF ff.panic
        THEN /\ ret' = Ret("new", <<>>, "panic", NoEntry)
             /\ UNCHANGED <<dir, phase, mem_table, wal, wal_files, pos, fresh, snap, touched, lastSet, budget>>
        ELSE \E t \in Clock :
               IF WalName(t) \in denied.append
               THEN /\ ret' = Ret("new", <<>>, "panic", NoEntry)
                    /\ budget' = budget - 1
                    /\ UNCHANGED <<dir, phase, mem_table, wal, wal_files, pos, fresh, snap, touched, lastSet>>
               ELSE /\ dir' = OpenAppend(dir, WalName(t))
                    /\ wal' = [path |-> WalName(t), buf |-> <<>>, unlinked |-> FALSE]
                    /\ fresh' = (WalName(t) \notin DOMAIN dir)
                    /\ wal_files' = SortPaths(ff.files)
                    /\ pos' = 1
                    /\ mem_table' = NewTable
                    /\ phase' = "replay"
                    /\ budget' = budget - 1
                    /\ snap' = dir
                    /\ touched' = {}
                    /\ lastSet' = [k \in StoreKeys |-> NoSet]
                    /\ ret' = NoRet
  /\ calls' = <<>>
  /\ UNCHANGED <<expect>>
  /\ UNCHANGED <<denied, yielded>>
  /\ UNCHANGED <<denied, yielded>>
\* one iteration of `for wal_path in wal_files.iter()`.  A file that
\* open_existing cannot open for append is skipped; a file it can open
\* but from_path cannot open for reading makes into_iter panic on expect,
\* and the unwinding drops active_wal (one flush_buf, result ignored);
\* otherwise the whole inner loop over the file's records runs
RecoverReplayFile ==
  /\ phase = "replay"
  /\ pos <= Len(wal_files)
  /\ IF wal_files[pos] \in denied.append
     THEN /\ pos' = pos + 1
          /\ UNCHANGED <<dir, phase, mem_table, wal, wal_files, ret, expect, fresh,
                         snap, touched, budget>>
     ELSE IF wal_files[pos] \in denied.read
     THEN /\ \E o \in FlushOutcomes(wal.buf) :
               /\ MayFail(budget, o)
               /\ budget' = AfterFlush(budget, o)
               /\ dir' = AppendFile(dir, wal, Written(wal.buf, o))
          /\ wal' = NoWal
          /\ phase' = "idle"
          /\ pos' = 1
          /\ mem_table' = NewTable
          /\ wal_files' = <<>>
          /\ ret' = Ret("new", wal_files[pos], "panic", NoEntry)
          /\ expect' = NoExpect
          /\ fresh' = FALSE
          /\ snap' = EmptyDir
          /\ touched' = {}
     ELSE /\ LET logs == LogRecords(dir[wal_files[pos]])
                  st   == ReplayLogs([t |-> mem_table, buf |-> wal.buf], logs)
             IN /\ Len(st.buf) < BufCapacity
                /\ mem_table' = st.t
                /\ wal' = [wal EXCEPT !.buf = st.buf]
                /\ touched' = touched \cup LogKeys(logs)
          /\ pos' = pos + 1
          /\ UNCHANGED <<dir, phase, wal_files, ret, expect, fresh, snap, budget>>
  /\ UNCHANGED <<calls, lastSet>>
  /\ UNCHANGED <<denied, yielded>>
  /\ UNCHANGED <<denied, yielded>>
\* mutant: the result of active_wal.flush() is not looked at
RecoverFlush_Unchecked ==
  /\ phase = "replay"
  /\ pos > Len(wal_files)
  /\ \E o \in FlushOutcomes(wal.buf) :
       /\ MayFail(budget, o)
       /\ budget' = AfterFlush(budget, o)
       /\ dir' = AppendFile(dir, wal, Written(wal.buf, o))
       /\ wal' = [wal EXCEPT !.buf = Unwritten(wal.buf, o)]
  /\ phase' = "delete"
  /\ pos' = 1
  /\ UNCHANGED <<mem_table, wal_files, ret, expect, fresh, snap, touched>>
  /\ UNCHANGED <<calls, lastSet>>
  /\ UNCHANGED <<denied, yielded>>

\* active_wal.flush()?  On Err the function returns, active_wal is dropped
\* (one more flush_buf, result ignored) and Disk::new panics on unwrap
RecoverFlush ==
  /\ phase = "replay"
  /\ pos > Len(wal_files)
  /\ \E o \in FlushOutcomes(wal.buf) :
       /\ MayFail(budget, o)
       /\ budget' = AfterFlush(budget, o)
       /\ IF o.ok
          THEN /\ dir' = AppendFile(dir, wal, wal.buf)
               /\ wal' = [wal EXCEPT !.buf = <<>>]
               /\ phase' = "delete"
               /\ pos' = 1
               /\ UNCHANGED <<mem_table, wal_files, ret, expect, fresh, snap, touched>>
          ELSE /\ \E o2 \in FlushOutcomes(Unwritten(wal.buf, o)) :
                    dir' = AppendFile(dir, wal,
                             Written(wal.buf, o) \o Written(Unwritten(wal.buf, o), o2))
               /\ wal' = NoWal
               /\ phase' = "idle"
               /\ pos' = 1
               /\ mem_table' = NewTable
               /\ wal_files' = <<>>
               /\ ret' = Ret("new", <<>>, "panic", NoEntry)
               /\ expect' = NoExpect
               /\ fresh' = FALSE
               /\ snap' = EmptyDir
               /\ touched' = {}
  /\ UNCHANGED <<calls, lastSet>>

  /\ UNCHANGED <<denied, yielded>>
\* one iteration of `for wal_path in wal_files { remove_file(wal_path)? }`
RecoverDelete ==
  /\ phase = "delete"
  /\ pos <= Len(wal_files)
  /\ dir' = RemoveFile(dir, wal_files[pos])
  /\ denied' = [read |-> denied.read \ {wal_files[pos]},
                append |-> denied.append \ {wal_files[pos]}]
  /\ wal' = IF wal_files[pos] = wal.path THEN [wal EXCEPT !.unlinked = TRUE] ELSE wal
  /\ pos' = pos + 1
  /\ UNCHANGED <<phase, mem_table, wal_files, ret, calls, fresh, expect, snap, lastSet, touched, budget>>
  /\ UNCHANGED yielded
  /\ UNCHANGED <<denied, yielded>>
\* Ok((active_wal, mem_table)) and Disk { mem_table, wal }
RecoverReturn ==
  /\ phase = "delete"
  /\ pos > Len(wal_files)
  /\ phase' = "open"
  /\ wal_files' = <<>>
  /\ pos' = 1
  /\ ret' = Ret("new", <<>>, "ok", NoEntry)
  /\ expect' = NoExpect
  /\ snap' = EmptyDir
  /\ UNCHANGED <<dir, mem_table, wal, calls, fresh, lastSet, touched, budget>>

  /\ UNCHANGED <<denied, yielded>>
----------------------------------------------------------------------------
(* Store facade: disk.rs *)

\* mutant: the table is updated before the flush result is looked at
set_apply_Always(t, ok, k, v, ts) == insert(t, k, v, ts)

\* Disk::set after the WAL calls: return Err(0) before the table is touched,
\* else mem_table.insert
set_apply(t, ok, k, v, ts) == IF ok THEN insert(t, k, v, ts) ELSE t

\* Disk::delete after the WAL calls
delete_apply(t, ok, k, ts) == IF ok THEN remove(t, k, ts) ELSE t

\* Disk::set.  record_insertion stays below the buffer capacity, so the
\* only failure is the flush.
Set ==
  /\ phase = "open"
  /\ budget > 0
  /\ \E k \in StoreKeys, v \in StoreVals, timestamp \in SetClock :
       /\ Fits(wal.buf, InsertionFrame(k, v, timestamp))
       /\ LET buf == record_insertion(wal.buf, k, v, timestamp)
          IN \E o \in FlushOutcomes(buf) :
               /\ MayFail(budget - 1, o)
               /\ budget' = AfterFlush(budget - 1, o)
               /\ dir' = AppendFile(dir, wal, Written(buf, o))
               /\ wal' = [wal EXCEPT !.buf = Unwritten(buf, o)]
               /\ mem_table' = set_apply(mem_table, o.ok, k, v, timestamp)
               /\ ret' = Ret("set", k, IF o.ok THEN "ok" ELSE "err", NoEntry)
               /\ lastSet' = [lastSet EXCEPT ![k] =
                    IF o.ok
                    THEN [some |-> TRUE, value |-> v, timestamp |-> timestamp]
                    ELSE NoSet]
               /\ calls' = IF o.ok THEN calls
                           ELSE Append(calls, LogRecord(k, Some(v), timestamp, FALSE))
       /\ touched' = touched \cup {k}
  /\ UNCHANGED <<phase, wal_files, pos, fresh, expect, snap>>

  /\ UNCHANGED <<denied, yielded>>
\* Disk::delete
Delete ==
  /\ phase = "open"
  /\ budget > 0
  /\ \E k \in StoreKeys, timestamp \in SetClock :
       /\ Fits(wal.buf, RemovalFrame(k, timestamp))
       /\ LET buf == record_removal(wal.buf, k, timestamp)
          IN \E o \in FlushOutcomes(buf) :
               /\ MayFail(budget - 1, o)
               /\ budget' = AfterFlush(budget - 1, o)
               /\ dir' = AppendFile(dir, wal, Written(buf, o))
               /\ wal' = [wal EXCEPT !.buf = Unwritten(buf, o)]
               /\ mem_table' = delete_apply(mem_table, o.ok, k, timestamp)
               /\ ret' = Ret("delete", k, IF o.ok THEN "ok" ELSE "err", NoEntry)
               /\ calls' = IF o.ok THEN calls
                           ELSE Append(calls, LogRecord(k, None, timestamp, TRUE))
       /\ lastSet' = [lastSet EXCEPT ![k] = NoSet]
       /\ touched' = touched \cup {k}
  /\ UNCHANGED <<phase, wal_files, pos, fresh, expect, snap>>

  /\ UNCHANGED <<denied, yielded>>
\* Disk::get: fetch, then value.as_ref().unwrap() on whatever fetch found
Get ==
  /\ phase = "open"
  /\ \E k \in StoreKeys :
       LET mem_entry == fetch(mem_table, k)
       IN IF mem_entry.some
          THEN IF mem_entry.val.value.some
               THEN /\ ret' = Ret("get", k, "ok",
                              DiskEntry(mem_entry.val.key, mem_entry.val.value.val,
                                        mem_entry.val.timestamp))
                    /\ phase' = phase
               ELSE /\ ret' = Ret("get", k, "panic", NoEntry)
                    /\ phase' = "panic"
          ELSE /\ ret' = Ret("get", k, "ok", NoEntry)
               /\ phase' = phase
  /\ UNCHANGED <<dir, mem_table, wal, wal_files, pos, calls, fresh, expect, snap, lastSet, touched, budget>>

  /\ UNCHANGED <<denied, yielded>>
\* the Disk is dropped (also while a panic unwinds): BufWriter::drop tries
\* one flush_buf and ignores its result
DropStore ==
  /\ phase \in {"open", "panic"}
  /\ \E o \in FlushOutcomes(wal.buf) :
       /\ MayFail(budget, o)
       /\ budget' = AfterFlush(budget, o)
       /\ dir' = AppendFile(dir, wal, Written(wal.buf, o))
  /\ expect' = [kind |-> "drop", mem |-> mem_table, failed |-> calls]
  /\ calls' = <<>>
  /\ wal' = NoWal
  /\ mem_table' = NewTable
  /\ phase' = "idle"
  /\ ret' = NoRet
  /\ fresh' = FALSE
  /\ lastSet' = [k \in StoreKeys |-> NoSet]
  /\ touched' = {}
  /\ UNCHANGED <<wal_files, pos, snap>>

  /\ UNCHANGED <<denied, yielded>>
\* the process is killed: memory (table, write buffer) is lost, files stay
Crash ==
  /\ phase # "idle"
  /\ expect' = IF phase = "delete" /\ pos <= Len(wal_files)
               THEN [kind |-> "crash", mem |-> mem_table]
               ELSE NoExpect
  /\ wal' = NoWal
  /\ mem_table' = NewTable
  /\ phase' = "idle"
  /\ wal_files' = <<>>
  /\ pos' = 1
  /\ ret' = NoRet
  /\ calls' = <<>>
  /\ fresh' = FALSE
  /\ snap' = EmptyDir
  /\ lastSet' = [k \in StoreKeys |-> NoSet]
  /\ touched' = {}
  /\ UNCHANGED <<dir, budget>>

  /\ UNCHANGED <<denied, yielded>>
\* the Store started on a directory that already holds logs
Next ==
  \/ RecoverBegin
  \/ RecoverReplayFile
  \/ RecoverFlush
  \/ RecoverDelete
  \/ RecoverReturn
  \/ Set
  \/ Delete
  \/ Get
  \/ DropStore
  \/ Crash

Spec == Init /\ [][Next]_vars

\* the Store started on an empty directory
InitStore == Start(EmptyDir, "idle", StoreEvents)

SpecStore == InitStore /\ [][Next]_vars

\* the WAL writer and reader alone
NextWal ==
  \/ WalCreateNew
  \/ WalRecordInsertion
  \/ WalRecordRemoval
  \/ WalFlush
  \/ WalDrop
  \/ Crash

InitWal == Start(EmptyDir, "idle", WalEvents)

SpecWal == InitWal /\ [][NextWal]_vars

----------------------------------------------------------------------------
(* The MemTable alone: any sequence of insert / remove / fetch calls on a *)
(* table that starts empty                                                *)

MemStamps == {5, 10}

\* Option<&InMemoryRecord> as a result value
FetchResult(r) ==
  IF r.some
  THEN [some |-> TRUE, key |-> r.val.key, value |-> r.val.value,
        timestamp |-> r.val.timestamp, is_deleted |-> r.val.is_deleted]
  ELSE [some |-> FALSE, key |-> <<>>, value |-> None, timestamp |-> 0,
        is_deleted |-> FALSE]

InitMem == Start(EmptyDir, "mem", 0)

MemUnchanged ==
  UNCHANGED <<dir, phase, wal, wal_files, pos, calls, fresh, expect, snap, lastSet, touched, budget, denied, yielded>>

\* InMemoryTable::insert
MemInsert ==
  /\ phase = "mem"
  /\ \E k \in Keys, v \in Values, ts \in MemStamps :
       /\ mem_table' = insert(mem_table, k, v, ts)
       /\ ret' = Ret("insert", k, "ok", FetchResult(None))
  /\ MemUnchanged

\* InMemoryTable::remove
MemRemove ==
  /\ phase = "mem"
  /\ \E k \in Keys, ts \in MemStamps :
       /\ mem_table' = remove(mem_table, k, ts)
       /\ ret' = Ret("remove", k, "ok", FetchResult(None))
  /\ MemUnchanged

\* InMemoryTable::fetch
MemFetch ==
  /\ phase = "mem"
  /\ \E k \in Keys :
       ret' = Ret("fetch", k, "ok", FetchResult(fetch(mem_table, k)))
  /\ mem_table' = mem_table
  /\ MemUnchanged

NextMem ==
  \/ MemInsert
  \/ MemRemove
  \/ MemFetch

SpecMem == InitMem /\ [][NextMem]_vars

(* The MemTable alone, with the last call remembered: calls holds the     *)
(* arguments of the last insert / remove, expect the record of its key as *)
(* the call found it                                                      *)

CallKeys == {<<>>, <<1>>, <<1, 0>>}

InitCalls == Start(EmptyDir, "calls", 0)

CallUnchanged ==
  UNCHANGED <<dir, phase, wal, wal_files, pos, fresh, snap, lastSet, touched, budget, denied, yielded>>

Replaced(t, k) ==
  [kind |-> "replaced",
   mem |-> [records |-> IF fetch(t, k).some THEN <<fetch(t, k).val>> ELSE <<>>,
            total_size |-> 0]]

\* InMemoryTable::insert
CallInsert ==
  /\ phase = "calls"
  /\ \E k \in CallKeys, v \in Values, ts \in MemStamps :
       /\ mem_table' = insert(mem_table, k, v, ts)
       /\ ret' = Ret("insert", k, "ok", FetchResult(None))
       /\ calls' = <<LogRecord(k, Some(v), ts, FALSE)>>
       /\ expect' = Replaced(mem_table, k)
  /\ CallUnchanged

\* InMemoryTable::remove
CallRemove ==
  /\ phase = "calls"
  /\ \E k \in CallKeys, ts \in MemStamps :
       /\ mem_table' = remove(mem_table, k, ts)
       /\ ret' = Ret("remove", k, "ok", FetchResult(None))
       /\ calls' = <<LogRecord(k, None, ts, TRUE)>>
       /\ expect' = Replaced(mem_table, k)
  /\ CallUnchanged

\* InMemoryTable::fetch
CallFetch ==
  /\ phase = "calls"
  /\ \E k \in CallKeys :
       ret' = Ret("fetch", k, "ok", FetchResult(fetch(mem_table, k)))
  /\ UNCHANGED <<mem_table, calls, expect>>
  /\ CallUnchanged

NextCalls ==
  \/ CallInsert
  \/ CallRemove
  \/ CallFetch

SpecCalls == InitCalls /\ [][NextCalls]_vars

(* Recovery alone, on a directory that holds logs, entries that are not *)
(* logs, and files that cannot be opened                                 *)

RecoverEvents == 2   \* SpecRecover: environment events per behaviour

DotLog == <<46, 108, 111, 103>>   \* ".log"
OtherNames == {Decimal(9), Decimal(9) \o DotLog}

\* d and the entries O, each holding one insertion frame
WithOthers(d, O) ==
  [n \in DOMAIN d \cup O |->
     IF n \in DOMAIN d THEN d[n] ELSE InsertionFrame(<<1>>, <<7>>, 300)]

InitRecover ==
  \E d \in PlacedDirs, O \in SUBSET OtherNames :
    \E r \in SUBSET DOMAIN d, a \in SUBSET DOMAIN d :
      Begin(WithOthers(d, O), "idle", RecoverEvents, <<>>, [read |-> r, append |-> a])

NextRecover ==
  \/ RecoverBegin
  \/ RecoverReplayFile
  \/ RecoverFlush
  \/ RecoverDelete
  \/ RecoverReturn
  \/ Crash

SpecRecover == InitRecover /\ [][NextRecover]_vars

(* Recovery cut short by a crash inside active_wal.flush(), then run again *)

CrashEvents == 2   \* SpecCrash: environment events per behaviour

\* two old logs whose names sort the same way as text and as numbers, and
\* before the name create_new gives the active WAL at clock 9
CrashStamps == {1, 2}
CrashDirs ==
  UNION {[{WalName(t) : t \in T} -> PlacedFrames] : T \in SUBSET CrashStamps}

\* the process is killed inside active_wal.flush(): the write calls made so
\* far have put the first n buffered bytes in the new file, the rest is lost
\* with the process; no old log has been removed yet
CrashInFlush ==
  /\ phase = "replay"
  /\ pos > Len(wal_files)
  /\ \E n \in 0..Len(wal.buf) :
       dir' = AppendFile(dir, wal, SubSeq(wal.buf, 1, n))
  /\ expect' = [kind |-> "flush", mem |-> mem_table]
  /\ wal' = NoWal
  /\ mem_table' = NewTable
  /\ phase' = "idle"
  /\ wal_files' = <<>>
  /\ pos' = 1
  /\ ret' = NoRet
  /\ calls' = <<>>
  /\ fresh' = FALSE
  /\ snap' = EmptyDir
  /\ lastSet' = [k \in StoreKeys |-> NoSet]
  /\ touched' = {}
  /\ UNCHANGED <<budget, denied, yielded>>

InitCrash == \E d \in CrashDirs : Start(d, "idle", CrashEvents)

NextCrash ==
  \/ RecoverBegin
  \/ RecoverReplayFile
  \/ RecoverFlush
  \/ RecoverDelete
  \/ RecoverReturn
  \/ Crash
  \/ CrashInFlush

SpecCrash == InitCrash /\ [][NextCrash]_vars

(* A LogFileIterator over one log file: complete frames followed by the  *)
(* first bytes of one more frame, as a write cut short leaves them       *)

IterFrames == 2   \* complete frames in the file

IterRecords ==
  {LogRecord(k, Some(v), 300, FALSE) : k \in StoreKeys, v \in StoreVals}
    \cup {LogRecord(k, None, 300, TRUE) : k \in StoreKeys}

\* the bytes record_insertion / record_removal write for a record
FrameOf(r) ==
  IF r.is_removed THEN RemovalFrame(r.identifier, r.event_time)
  ELSE InsertionFrame(r.identifier, r.data.val, r.event_time)

RECURSIVE FramesOf(_)
FramesOf(rs) == IF rs = <<>> THEN <<>> ELSE FrameOf(Head(rs)) \o FramesOf(Tail(rs))

IterInputs == UNION {[1..n -> IterRecords] : n \in 0..IterFrames}

InitIter ==
  \E rs \in IterInputs, torn \in IterRecords :
    \E cut \in 0..(Len(FrameOf(torn)) - 1) :
      Begin([n \in {WalName(9)} |-> FramesOf(rs) \o SubSeq(FrameOf(torn), 1, cut)],
            "iter", 0, rs, NoDenied)

\* LogFileIterator::next on the file; pos is the reader's position plus one
IterStep ==
  /\ phase = "iter"
  /\ LET r == IterNext(dir[WalName(9)], pos - 1)
     IN IF r.some
        THEN /\ yielded' = Append(yielded, r.rec)
             /\ pos' = r.at + 1
             /\ phase' = phase
        ELSE /\ phase' = "iterend"
             /\ UNCHANGED <<yielded, pos>>
  /\ UNCHANGED <<dir, mem_table, wal, wal_files, ret, budget, calls, fresh,
                 expect, snap, lastSet, touched, denied>>

NextIter == IterStep

SpecIter == InitIter /\ [][NextIter]_vars

----------------------------------------------------------------------------
(* Claims *)

\* strictly ascending keys
Ascending(recs) ==
  \A i \in 1..(Len(recs) - 1) : LexLess(recs[i].key, recs[i + 1].key)

\* C10: after any sequence of insert and remove calls on a table that
\* started empty, the records are in strictly ascending lexicographic key
\* order (so no two records share a key), whatever the order of the writes.
C10_Ordering ==
  /\ Ascending(mem_table.records)
  /\ \A i, j \in 1..Len(mem_table.records) :
       i # j => mem_table.records[i].key # mem_table.records[j].key

\* every key of the model is in the table, the key <<1>> and its extension
\* <<1, 0>> included, some live and some tombstones
C10_Witness ==
  /\ phase = "mem"
  /\ Len(mem_table.records) = Cardinality(Keys)
  /\ \E i \in 1..Len(mem_table.records) : mem_table.records[i].is_deleted
  /\ \E i \in 1..Len(mem_table.records) : ~mem_table.records[i].is_deleted

\* len(key) + (len(value) if live else 0) + 17, summed over the records
RECURSIVE SizeOf(_)
SizeOf(recs) ==
  IF recs = <<>> THEN 0
  ELSE Len(Head(recs).key)
       + (IF Head(recs).value.some THEN Len(Head(recs).value.val) ELSE 0)
       + 17 + SizeOf(Tail(recs))

\* C11: after any sequence of insert and remove calls on a table that
\* started empty, current_size is the sum over the records of
\* len(key) + (len(value) if live else 0) + 17.
C11_SizeAccounting ==
  phase = "mem" => mem_table.total_size = SizeOf(mem_table.records)

\* every key is in the table: a tombstone, a live record with an empty
\* value and a live record with a two-byte value among them
C11_Witness ==
  /\ phase = "mem"
  /\ Len(mem_table.records) = Cardinality(Keys)
  /\ \E i \in 1..Len(mem_table.records) : ~mem_table.records[i].value.some
  /\ \E i \in 1..Len(mem_table.records) :
       mem_table.records[i].value = Some(<<>>)
  /\ \E i \in 1..Len(mem_table.records) :
       mem_table.records[i].value = Some(<<8, 9>>)

\* C12: in every MemTable state, built by live calls or by replay, a
\* record has is_deleted = true exactly when its value is absent.
C12_FlagCoherence ==
  \A i \in 1..Len(mem_table.records) :
    mem_table.records[i].is_deleted <=> ~mem_table.records[i].value.some

\* the table holds a live record replayed from the log of an earlier Store
\* and the tombstone of a delete of this Store
C12_Witness ==
  /\ phase = "open"
  /\ ret.op = "delete"
  /\ ret.status = "ok"
  /\ Len(mem_table.records) = 2
  /\ \E i, j \in 1..2 :
       /\ mem_table.records[i].key = ret.key
       /\ mem_table.records[i].is_deleted
       /\ mem_table.records[j].value.some
       /\ ~lastSet[mem_table.records[j].key].some
       /\ mem_table.records[j].key \in touched

\* the records of t other than the one of key k, in order
Others(t, k) == SelectSeq(t.records, LAMBDA r : r.key # k)

\* C13: after remove(k, ts) fetch(k) returns the tombstone (k, absent,
\* deleted, ts); a key that was absent gives one record more and
\* len(k) + 17 bytes more, a key that was present is replaced in place.
C13_RemoveLeavesTombstone ==
  [][(phase = "calls" /\ ret'.op = "remove") =>
       LET k == ret'.key
           ts == calls'[1].event_time
       IN /\ fetch(mem_table', k) = Some(InMemoryRecord(k, None, ts, TRUE))
          /\ Others(mem_table', k) = Others(mem_table, k)
          /\ IF fetch(mem_table, k).some
             THEN /\ Len(mem_table'.records) = Len(mem_table.records)
                  /\ find_key_position(mem_table', k) = find_key_position(mem_table, k)
             ELSE /\ Len(mem_table'.records) = Len(mem_table.records) + 1
                  /\ mem_table'.total_size = mem_table.total_size + Len(k) + 17]_vars

\* remove of a key that was absent put its tombstone between two records
C13_Witness ==
  /\ phase = "calls"
  /\ ret.op = "remove"
  /\ expect.mem.records = <<>>
  /\ Len(mem_table.records) = 3
  /\ mem_table.records[2] = InMemoryRecord(ret.key, None, calls[1].event_time, TRUE)

\* C14: insert(k, v, ts) or remove(k, ts) on a key already present replaces
\* the whole record for every ts, smaller or equal timestamps included;
\* fetch(k) then returns the new value or tombstone and the new ts.
C14_UnconditionalOverwrite ==
  [][(phase = "calls" /\ ret'.op \in {"insert", "remove"}
        /\ fetch(mem_table, ret'.key).some) =>
       LET k == ret'.key
       IN /\ fetch(mem_table', k) =
               Some(InMemoryRecord(k, calls'[1].data, calls'[1].event_time,
                                   calls'[1].is_removed))
          /\ Len(mem_table'.records) = Len(mem_table.records)
          /\ Others(mem_table', k) = Others(mem_table, k)]_vars

\* an insert with timestamp 5 replaced a record of its key with timestamp 10
C14_Witness ==
  /\ phase = "calls"
  /\ ret.op = "insert"
  /\ calls[1].event_time = 5
  /\ expect.mem.records # <<>>
  /\ expect.mem.records[1].timestamp = 10
  /\ fetch(mem_table, ret.key) =
       Some(InMemoryRecord(ret.key, calls[1].data, 5, FALSE))

\* a is the first Len(a) elements of b
IsPrefix(a, b) == Len(a) <= Len(b) /\ a = SubSeq(b, 1, Len(a))

\* C18: over a file of n complete frames followed by a strict prefix of one
\* more frame the iterator yields exactly the n frames and then ends; it
\* never yields a partial record.
C18_TornTail ==
  phase \in {"iter", "iterend"} =>
    /\ IsPrefix(yielded, calls)
    /\ phase = "iterend" => yielded = calls

\* the iterator ended after two complete frames on a file that goes on with
\* an insertion frame cut inside its key, value or timestamp
C18_Witness ==
  /\ phase = "iterend"
  /\ Len(yielded) = 2
  /\ Len(dir[WalName(9)]) > Len(FramesOf(calls)) + 17
  /\ dir[WalName(9)][Len(FramesOf(calls)) + 9] = 0

----------------------------------------------------------------------------
(* Claims about the Store and the WAL *)

TableOf(logs) == ReplayLogs([t |-> NewTable, buf |-> <<>>], logs).t

IsTombstone(t, k) ==
  \E i \in 1..Len(t.records) : t.records[i].key = k /\ t.records[i].is_deleted

\* C1: a Store B constructed over the directory a dropped Store A left has
\* A's MemTable at drop time: same keys, values, tombstones and timestamps.
C1_ReplayDeterminism ==
  [][(phase = "delete" /\ phase' = "open" /\ expect.kind = "drop")
       => mem_table'.records = expect.mem.records]_vars

\* C2: get(k) on a key whose MemTable record is a tombstone returns absent
\* and completes normally.
C2_GetTombstoneAbsent ==
  (ret.op = "get" /\ IsTombstone(mem_table, ret.key))
    => (ret.status = "ok" /\ ~ret.entry.some)

\* C3: after a set(k, v) that returned ok and no later set or delete on k,
\* get(k) returns (k, v, ts) with the timestamp of that set; get on a key
\* never written, live or by replay, returns absent.
C3_ReadYourWrites ==
  ret.op = "get" =>
    /\ lastSet[ret.key].some =>
         /\ ret.status = "ok"
         /\ ret.entry = DiskEntry(ret.key, lastSet[ret.key].value,
                                  lastSet[ret.key].timestamp)
    /\ ret.key \notin touched =>
         /\ ret.status = "ok"
         /\ ret.entry = NoEntry

\* get returned the value and the timestamp of a successful set on its key
\* while the table holds a record of another key
C3_Witness ==
  /\ phase = "open"
  /\ ret.op = "get"
  /\ lastSet[ret.key].some
  /\ ret.entry.some
  /\ ret.entry.value = <<7>>
  /\ ret.entry.timestamp = 9
  /\ Len(mem_table.records) = 2

\* C4: when set or delete returns an error the MemTable is exactly as it
\* was before the call: same records, same order, same total_size.
C4_ErrorLeavesTable ==
  [][(budget' < budget /\ ret'.op \in {"set", "delete"} /\ ret'.status = "err")
       => mem_table' = mem_table]_vars

\* a set failed on a Store whose table holds a record, part of the frame
\* stayed in the write buffer
C4_Witness ==
  /\ phase = "open"
  /\ ret.op = "set"
  /\ ret.status = "err"
  /\ Len(mem_table.records) = 1
  /\ mem_table.records[1].key # ret.key
  /\ wal.buf # <<>>

\* C5: whenever the Store is open and idle, the MemTable equals the replay
\* of the flushed contents of the active WAL.
C5_WriteAhead ==
  (phase = "open" /\ ~wal.unlinked)
    => mem_table.records = TableOf(LogRecords(dir[wal.path])).records

\* C6: when recovery has completed the directory holds exactly one .wal
\* file, the active WAL that recovery returned.
C6_LogCollapse ==
  phase = "open" => find_files_with_extension(dir, ExtWal).files = {wal.path}

\* the <decimal-microseconds> of a log file name
RECURSIVE ParseDecimal(_)
ParseDecimal(digits) ==
  IF digits = <<>> THEN 0
  ELSE 10 * ParseDecimal(SubSeq(digits, 1, Len(digits) - 1)) + (digits[Len(digits)] - 48)

FileMicros(name) == ParseDecimal(SubSeq(name, 1, LastDot(name, Len(name)) - 1))

RECURSIVE ChronologicalOrder(_)
ChronologicalOrder(S) ==
  IF S = {} THEN <<>>
  ELSE LET m == CHOOSE x \in S : \A y \in S : FileMicros(x) <= FileMicros(y)
       IN <<m>> \o ChronologicalOrder(S \ {m})

RECURSIVE LogsOf(_, _)
LogsOf(d, order) ==
  IF order = <<>> THEN <<>>
  ELSE LogRecords(d[Head(order)]) \o LogsOf(d, Tail(order))

\* C7: recovery applies the old logs in the numeric order of their file
\* names, so the frame of the numerically later file decides a key that
\* both files write.
C7_ChronologicalReplay ==
  phase = "delete" =>
    mem_table.records =
      TableOf(LogsOf(snap,
        ChronologicalOrder(find_files_with_extension(snap, ExtWal).files))).records

\* C8: after a crash of recovery between the flush of the new active WAL
\* and the deletion of the last old log, the next recovery yields the
\* MemTable the interrupted recovery had built.
C8_CrashAfterFlush ==
  [][(phase = "delete" /\ phase' = "open" /\ expect.kind = "crash")
       => mem_table'.records = expect.mem.records]_vars

\* C9: after record_insertion / record_removal calls on a fresh WAL and a
\* flush, the iterator over the file yields one LogRecord per call, in call
\* order, with the same key, value, timestamp and removed flag, and ends.
C9_FrameRoundTrip ==
  (phase = "wal" /\ fresh /\ wal.buf = <<>>) => LogRecords(dir[wal.path]) = calls

\* three calls were flushed: a removal, an insertion with an empty key or
\* value, and an insertion with a non-empty key and value
C9_Witness ==
  /\ phase = "wal"
  /\ fresh
  /\ wal.buf = <<>>
  /\ Len(calls) = 3
  /\ \E i \in 1..3 : calls[i].is_removed
  /\ \E i \in 1..3 : ~calls[i].is_removed /\ calls[i].identifier = <<1>>
                     /\ calls[i].data.val = <<7>> /\ calls[i].event_time = 300
  /\ \E i \in 1..3 : ~calls[i].is_removed /\ calls[i].identifier = <<>>
                     /\ calls[i].data.val = <<>>

\* the old logs open_existing could open, in the order of the replay
Opened(files) == SelectSeq(files, LAMBDA f : f \notin denied.append)

\* insert for insertion records, remove for removal records, in order
RECURSIVE FoldLogs(_, _)
FoldLogs(t, logs) ==
  IF logs = <<>> THEN t
  ELSE FoldLogs(IF Head(logs).is_removed
                THEN remove(t, Head(logs).identifier, Head(logs).event_time)
                ELSE insert(t, Head(logs).identifier, Head(logs).data.val,
                            Head(logs).event_time),
                Tail(logs))

\* a is the last Len(a) elements of b
IsSuffix(a, b) ==
  Len(a) <= Len(b) /\ a = SubSeq(b, Len(b) - Len(a) + 1, Len(b))

\* recovery has flushed the new log and has not deleted a file yet
Flushed == phase = "delete" /\ pos = 1

C17_NewWalContent ==
  (Flushed /\ ~wal.unlinked) =>
    LogRecords(dir[wal.path]) = LogsOf(snap, Opened(wal_files))

\* C19: when an old log cannot be opened for reading recovery does not
\* abort; the file contributes no frames and the other old logs are
\* replayed in order into the MemTable and the new active WAL.
C19_OpenFailureSkipped ==
  /\ ~(ret.op = "new" /\ ret.status = "panic" /\ ret.key # <<>>)
  /\ Flushed =>
       mem_table = FoldLogs(NewTable,
         LogsOf(snap, SelectSeq(wal_files, LAMBDA f : f \notin denied.read)))

\* the entries of the directory recovery found that are not logs
NotLogs(d) == {f \in DOMAIN d : Extension(f) # Some(ExtWal)}

\* the logs of d alone
OnlyLogs(d) == [f \in DOMAIN d \ NotLogs(d) |-> d[f]]

\* C20: entries whose extension is not wal, entries without extension
\* included, are not replayed, deleted or modified, and recovery completes
\* with the MemTable it would build without them.
C20_OnlyWalFiles ==
  /\ ~(phase = "idle" /\ ret.op = "new" /\ ret.status = "panic"
        /\ find_files_with_extension(dir, ExtWal).panic
        /\ ~find_files_with_extension(OnlyLogs(dir), ExtWal).panic)
  /\ phase \in {"replay", "delete"} =>
       \A f \in NotLogs(snap) : f \in DOMAIN dir /\ dir[f] = snap[f]
  /\ Flushed =>
       mem_table = FoldLogs(NewTable, LogsOf(OnlyLogs(snap), Opened(wal_files)))

\* C21: the active WAL a recovery creates is a new file, distinct from every
\* old log: its path is not among the paths enumerated for replay, so that
\* recovery neither reads it as an old log nor removes it, whatever the
\* wall clock reads.
C21_ActiveWalIsNew ==
  /\ phase \in {"replay", "delete"} =>
       \A i \in 1..Len(wal_files) : wal_files[i] # wal.path
  /\ ~wal.unlinked

\* C22: a failed write never surfaces later.  When a set or a delete of a
\* Store returned an error and the Store is later dropped and reopened over
\* the same directory, the recovered MemTable is the table the Store held at
\* its drop: that table has no effect of the failed calls (C4) and every
\* effect of the calls that returned ok.
C22_FailedWriteNeverSurfaces ==
  [][(/\ phase = "delete" /\ phase' = "open"
      /\ expect.kind = "drop"
      /\ expect.failed # <<>>)
     => mem_table'.records = expect.mem.records]_vars

\* C23: a crash before the flush of recovery is safe.  When the process dies
\* while the frames copied from the old logs are being written to the new
\* active WAL (the new file holds a prefix of them, possibly torn, and every
\* old log still exists), the next recovery returns the MemTable a recovery
\* over the old logs alone builds: the table the interrupted recovery had
\* built when it started its flush.
C23_CrashBeforeFlush ==
  [][(/\ phase = "delete" /\ phase' = "open"
      /\ expect.kind = "flush")
     => mem_table'.records = expect.mem.records]_vars

====
